---- MODULE Spec2Model ----
(***************************************************************************)
(* A model of pnl.py: the three exchange request builders (Bybit, Binance, *)
(* OKX), the response checks and position selection, and the main script   *)
(* that queries the exchanges one after another and writes the rows to a   *)
(* Google sheet.                                                           *)
(*                                                                         *)
(* Python values are tagged records: None, PStr(tokens), PInt(n).  A str   *)
(* is a sequence of tokens; a token is either a run of characters that     *)
(* urlencode leaves alone (letters, digits, "_", ".", "-", "~") or one     *)
(* reserved character.  Text that is only concatenated and compared (a     *)
(* query string, a pre-sign string) is a TLA+ string.  HMAC-SHA256 is an   *)
(* uninterpreted, collision-free constructor.                              *)
(***************************************************************************)
EXTENDS Integers, Sequences, FiniteSets, TLC

VARIABLES
    pc,          \* position of the main script
    env,         \* the process environment: name -> value or None
    clock,       \* time.time() * 1000, read by each request
    requests,    \* exchange requests issued so far, in order
    responses,   \* the outline of what each request got back, in the same order
    raised,      \* the exception that ended the run or the call, or None
    sheet,       \* operations done on the worksheet, in order
    bybit_list, bybit_pos, bybit_cum_realised_pnl, bybit_size,
    total_income,
    positions, binance_size,
    okx_resp, okx_pos, okx_deltaPA, okx_realizedPnl, okx_size,
    df,          \* the rows handed to the sheet
    call,        \* the function call under test: its name and arguments
    ret          \* what the call under test returned, or None

runVars == <<pc, env, sheet, bybit_list, bybit_pos, bybit_cum_realised_pnl,
             bybit_size, total_income, positions, binance_size, okx_resp,
             okx_pos, okx_deltaPA, okx_realizedPnl, okx_size, df>>
callVars == <<call, ret>>
vars == <<runVars, callVars, clock, requests, responses, raised>>

-----------------------------------------------------------------------------
(* Python values *)

None == [none |-> TRUE]
PStr(tokens) == [str |-> tokens]
PInt(n) == [int |-> n]
IsStr(v) == DOMAIN v = {"str"}
IsInt(v) == DOMAIN v = {"int"}

\* a JSON object and a JSON array, as r.json() gives them
PDict(pairs) == [dict |-> pairs]
PList(items) == [list |-> items]
IsDict(v) == DOMAIN v = {"dict"}
IsList(v) == DOMAIN v = {"list"}

\* Python truthiness of None, a str or an int
Truthy(v) ==
    IF v = None THEN FALSE
    ELSE IF IsStr(v) THEN v.str # <<>>
    ELSE IF IsInt(v) THEN v.int # 0
    ELSE IF DOMAIN v = {"dict"} THEN v.dict # <<>>
    ELSE IF DOMAIN v = {"list"} THEN v.list # <<>>
    ELSE TRUE

Digit(d) ==
    CASE d = 0 -> "0" [] d = 1 -> "1" [] d = 2 -> "2" [] d = 3 -> "3"
      [] d = 4 -> "4" [] d = 5 -> "5" [] d = 6 -> "6" [] d = 7 -> "7"
      [] d = 8 -> "8" [] d = 9 -> "9"

RECURSIVE Decimal(_)
\* str(n) of an int
Decimal(n) ==
    IF n < 0 THEN "-" \o Decimal(0 - n)
    ELSE IF n < 10 THEN Digit(n)
    ELSE Decimal(n \div 10) \o Digit(n % 10)

\* str(v) as urlencode applies it to a value of a parameter map
str(v) ==
    IF IsStr(v) THEN v.str
    ELSE IF IsInt(v) THEN <<Decimal(v.int)>>
    ELSE <<"None">>

-----------------------------------------------------------------------------
(* urllib.parse.urlencode and the HMACs *)

\* quote_plus of one token: a reserved character is escaped
QuoteToken(t) ==
    CASE t = " " -> "+"
      [] t = "&" -> "%26"
      [] t = "=" -> "%3D"
      [] t = "+" -> "%2B"
      [] t = "%" -> "%25"
      [] t = "/" -> "%2F"
      [] OTHER -> t

RECURSIVE QuotePlus(_)
QuotePlus(tokens) ==
    IF tokens = <<>> THEN ""
    ELSE QuoteToken(Head(tokens)) \o QuotePlus(Tail(tokens))

RECURSIVE Concat(_)
\* the text of a str, nothing escaped
Concat(tokens) ==
    IF tokens = <<>> THEN "" ELSE Head(tokens) \o Concat(Tail(tokens))

RECURSIVE urlencode(_)
\* params: a dict in insertion order, a sequence of <<key, value>>
urlencode(params) ==
    IF params = <<>> THEN ""
    ELSE LET one == QuotePlus(Head(params)[1]) \o "=" \o QuotePlus(str(Head(params)[2]))
         IN  IF Tail(params) = <<>> THEN one
             ELSE one \o "&" \o urlencode(Tail(params))

\* hmac.new(secret, message, sha256).hexdigest()
_bybit_hmac_sign(message, secret) == [hmac_sha256_hex |-> message, key |-> secret]

\* Python dict operations on a sequence of <<key, value>>
HasKey(d, k) == \E i \in 1..Len(d) : d[i][1] = k
Get(d, k) == IF HasKey(d, k) THEN d[CHOOSE i \in 1..Len(d) : d[i][1] = k][2] ELSE None
\* d[k] = v: an existing key keeps its place, a new one goes last
SetItem(d, k, v) ==
    IF HasKey(d, k) THEN [i \in 1..Len(d) |-> IF d[i][1] = k THEN <<k, v>> ELSE d[i]]
    ELSE Append(d, <<k, v>>)
\* d.get(k, default)
GetOr(d, k, default) == IF HasKey(d, k) THEN Get(d, k) ELSE default
SetDefault(d, k, v) == IF HasKey(d, k) THEN d ELSE Append(d, <<k, v>>)
Keys(d) == [i \in 1..Len(d) |-> d[i][1]]

-----------------------------------------------------------------------------
(* HTTP responses, as requests.get gives them *)

NoResponse == [timeout |-> TRUE]          \* requests.get raised: timeout, no connection
NotJson == [notjson |-> TRUE]             \* a body r.json() cannot parse
Response(status, body) == [status_code |-> status, body |-> body]

\* Response.raise_for_status(): HTTPError for 400..599 only
RaisesForStatus(status) == 400 <= status /\ status < 600

\* the exchange's own result code in a body: Bybit's retCode, Binance's and OKX's code
CodeKey(body) == IF HasKey(body.dict, "retCode") THEN "retCode" ELSE "code"
\* a response without its payload: the status, whether the body parses, the result code
Outline(resp) ==
    IF resp = NoResponse THEN NoResponse
    ELSE [status_code |-> resp.status_code,
          json |-> resp.body # NotJson,
          has_code |-> IsDict(resp.body) /\ HasKey(resp.body.dict, CodeKey(resp.body)),
          code |-> IF IsDict(resp.body) THEN Get(resp.body.dict, CodeKey(resp.body))
                   ELSE None]

Returned(sent, value) == [sent |-> sent, raised |-> None, value |-> value]
Raised(sent, error) == [sent |-> sent, raised |-> PStr(<<error>>), value |-> None]

\* next((p for p in items if p.get(key) == target), None)
FirstMatch(items, key, target) ==
    IF \E i \in 1..Len(items) : Get(items[i].dict, key) = target
    THEN items[CHOOSE i \in 1..Len(items) :
                   /\ Get(items[i].dict, key) = target
                   /\ \A j \in 1..(i - 1) : Get(items[j].dict, key) # target]
    ELSE None

\* requests.get(url, params=...): a parameter whose value is None is not sent
Wire(params) == SelectSeq(params, LAMBDA kv : kv[2] # None)

-----------------------------------------------------------------------------
(* Bybit *)

BYBIT_BASE_URL == "https://api.bybit.com"
BYBIT_RECV_WINDOW == "5000"

\* bybit_get_positions with `if symbol:` for `if symbol is not None:` and so on
BybitParamsTruthy(symbol, base_coin, settle_coin, limit, cursor) ==
    LET p0 == <<<<(<<"category">>), PStr(<<"linear">>)>>>>
        p1 == IF Truthy(symbol) THEN SetItem(p0, <<"symbol">>, symbol) ELSE p0
        p2 == IF Truthy(base_coin) THEN SetItem(p1, <<"baseCoin">>, base_coin) ELSE p1
        p3 == IF Truthy(settle_coin) THEN SetItem(p2, <<"settleCoin">>, settle_coin) ELSE p2
        p4 == IF Truthy(limit) THEN SetItem(p3, <<"limit">>, PStr(str(limit))) ELSE p3
        p5 == IF Truthy(cursor) THEN SetItem(p4, <<"cursor">>, cursor) ELSE p4
    IN  p5

\* params of bybit_get_positions: category, then each filter that is not None
BybitParams(symbol, base_coin, settle_coin, limit, cursor) ==
    LET p0 == <<<<(<<"category">>), PStr(<<"linear">>)>>>>
        p1 == IF symbol # None THEN SetItem(p0, <<"symbol">>, symbol) ELSE p0
        p2 == IF base_coin # None THEN SetItem(p1, <<"baseCoin">>, base_coin) ELSE p1
        p3 == IF settle_coin # None THEN SetItem(p2, <<"settleCoin">>, settle_coin) ELSE p2
        p4 == IF limit # None THEN SetItem(p3, <<"limit">>, PStr(str(limit))) ELSE p3
        p5 == IF cursor # None THEN SetItem(p4, <<"cursor">>, cursor) ELSE p4
    IN  p5

\* pre_sign = timestamp + api_key + BYBIT_RECV_WINDOW + query_string
BybitPreSign(timestamp, api_key, params) ==
    timestamp \o Concat(api_key.str) \o BYBIT_RECV_WINDOW \o urlencode(params)

\* resp.raise_for_status(); return resp.json()
BybitResult(sent, resp) ==
    IF resp = NoResponse THEN Raised(sent, "RequestException")
    ELSE IF RaisesForStatus(resp.status_code) THEN Raised(sent, "HTTPError")
    ELSE IF resp.body = NotJson THEN Raised(sent, "JSONDecodeError")
    ELSE Returned(sent, resp.body)

\* now: time.time() * 1000 at the call; resp: what the exchange answers
bybit_get_positions(api_key, api_secret, symbol, base_coin, settle_coin, limit, cursor, now, resp) ==
    LET timestamp == Decimal(now)
        params == BybitParams(symbol, base_coin, settle_coin, limit, cursor)
        pre_sign == BybitPreSign(timestamp, api_key, params)
        signature == _bybit_hmac_sign(pre_sign, api_secret)
        headers == [X_BAPI_API_KEY |-> api_key,
                    X_BAPI_TIMESTAMP |-> timestamp,
                    X_BAPI_SIGN |-> signature,
                    X_BAPI_RECV_WINDOW |-> BYBIT_RECV_WINDOW]
        request == [url |-> BYBIT_BASE_URL \o "/v5/position/list",
                    params |-> Wire(params), headers |-> headers]
    IN  BybitResult(<<request>>, resp)

-----------------------------------------------------------------------------
(* Binance *)

BINANCE_BASE_URL == "https://fapi.binance.com"
LimitMin == 1
LimitMax == 1000
DefaultRecvWindow == 5000

\* hmac over urlencode(params, doseq=True)
_binance_sign_params(params, api_secret) ==
    [hmac_sha256_hex |-> urlencode(params), key |-> api_secret]

\* _binance_signed_get signing before it sets the timestamp
BinanceSignedParamsSignFirst(params, api_secret, now) ==
    LET copy == params
        signed == SetItem(copy, <<"signature">>, _binance_sign_params(copy, api_secret))
    IN  SetDefault(signed, <<"timestamp">>, PInt(now))

\* the parameter map _binance_signed_get sends, from a copy of the caller's
BinanceSignedParams(params, api_secret, now) ==
    LET copy == params
        stamped == SetDefault(copy, <<"timestamp">>, PInt(now))
    IN  SetItem(stamped, <<"signature">>, _binance_sign_params(stamped, api_secret))

\* r.json(), then the status check
BinanceResult(sent, resp) ==
    IF resp = NoResponse THEN Raised(sent, "RequestException")
    ELSE IF resp.body = NotJson
         THEN IF RaisesForStatus(resp.status_code) THEN Raised(sent, "HTTPError")
              ELSE Raised(sent, "RuntimeError: Non-JSON response")
    ELSE IF resp.status_code # 200 THEN Raised(sent, "RuntimeError: Binance error")
    ELSE Returned(sent, resp.body)

\* the result carries the caller's map as the call leaves it
_binance_signed_get(path, api_key, api_secret, params, now, resp) ==
    LET request == [url |-> BINANCE_BASE_URL \o path,
                    params |-> Wire(BinanceSignedParams(params, api_secret, now)),
                    headers |-> [X_MBX_APIKEY |-> api_key]]
    IN  [caller_params |-> params] @@ BinanceResult(<<request>>, resp)

IncomeParams(symbol, income_type, start_time_ms, end_time_ms, page, limit, recv_window) ==
    LET p0 == <<<<(<<"recvWindow">>), PInt(recv_window)>>, <<(<<"limit">>), PInt(limit)>>>>
        p1 == IF Truthy(symbol) THEN SetItem(p0, <<"symbol">>, symbol) ELSE p0
        p2 == IF Truthy(income_type) THEN SetItem(p1, <<"incomeType">>, income_type) ELSE p1
        p3 == IF start_time_ms # None THEN SetItem(p2, <<"startTime">>, start_time_ms) ELSE p2
        p4 == IF end_time_ms # None THEN SetItem(p3, <<"endTime">>, end_time_ms) ELSE p3
        p5 == IF page # None THEN SetItem(p4, <<"page">>, page) ELSE p4
    IN  p5

\* the range check with the upper end left out
LimitInRangeExclusive(limit) == LimitMin <= limit /\ limit < LimitMax

\* not (1 <= limit <= 1000) is what raises
LimitInRange(limit) == LimitMin <= limit /\ limit <= LimitMax

binance_get_futures_income(api_key, api_secret, symbol, income_type, start_time_ms, end_time_ms, page, limit, recv_window, now, resp) ==
    IF ~LimitInRange(limit) THEN Raised(<<>>, "ValueError: limit must be between 1 and 1000")
    ELSE LET got == _binance_signed_get("/fapi/v1/income", api_key, api_secret,
                        IncomeParams(symbol, income_type, start_time_ms, end_time_ms,
                                     page, limit, recv_window), now, resp)
         IN  IF got.raised # None THEN Raised(got.sent, got.raised.str[1])
             ELSE IF ~IsList(got.value)
                  THEN Raised(got.sent, "RuntimeError: Unexpected response shape")
             ELSE Returned(got.sent, got.value)

binance_get_futures_account(api_key, api_secret, recv_window, now, resp) ==
    LET got == _binance_signed_get("/fapi/v3/account", api_key, api_secret,
                    <<<<(<<"recvWindow">>), PInt(recv_window)>>>>, now, resp)
    IN  IF got.raised # None THEN Raised(got.sent, got.raised.str[1])
        ELSE IF ~IsDict(got.value)
             THEN Raised(got.sent, "RuntimeError: Unexpected response shape")
        ELSE Returned(got.sent, got.value)

-----------------------------------------------------------------------------
(* OKX *)

OKX_BASE_URL == "https://www.okx.com"

\* isoformat(timespec="milliseconds") of a UTC instant `now` ms into the epoch second
IsoFormat(now) ==
    <<"1970-01-01T00:00:00.",
      (IF now < 10 THEN "00" ELSE IF now < 100 THEN "0" ELSE "") \o Decimal(now),
      "+00:00">>

\* .replace("+00:00", "Z")
_okx_timestamp(now) ==
    Concat([i \in 1..3 |-> IF IsoFormat(now)[i] = "+00:00" THEN "Z" ELSE IsoFormat(now)[i]])

\* base64 of the HMAC-SHA256 digest of timestamp + METHOD + request_path + body
_okx_sign(timestamp, method, request_path, body, secret) ==
    [hmac_sha256_base64 |-> timestamp \o method \o request_path \o body, key |-> secret]

OkxParams(inst_type, inst_id, pos_id) ==
    LET p0 == <<>>
        p1 == IF Truthy(inst_type) THEN SetItem(p0, <<"instType">>, inst_type) ELSE p0
        p2 == IF Truthy(inst_id) THEN SetItem(p1, <<"instId">>, inst_id) ELSE p1
        p3 == IF Truthy(pos_id) THEN SetItem(p2, <<"posId">>, pos_id) ELSE p2
    IN  p3

\* data.get("code") not in (None, "0")
OkxCodeIsError(data) ==
    /\ IsDict(data)
    /\ Get(data.dict, "code") # None
    /\ Get(data.dict, "code") # PStr(<<"0">>)

\* r.json(), the HTTP status check, then the API code check
OkxResult(sent, resp) ==
    IF resp = NoResponse THEN Raised(sent, "RequestException")
    ELSE IF resp.body = NotJson
         THEN IF RaisesForStatus(resp.status_code) THEN Raised(sent, "HTTPError")
              ELSE Raised(sent, "RuntimeError: Non-JSON response")
    ELSE IF resp.status_code # 200 THEN Raised(sent, "RuntimeError: OKX HTTP error")
    ELSE IF OkxCodeIsError(resp.body) THEN Raised(sent, "RuntimeError: OKX API error")
    ELSE Returned(sent, resp.body)

okx_get_positions(api_key, api_secret, passphrase, inst_type, inst_id, pos_id, now, resp) ==
    LET path == "/api/v5/account/positions"
        query == urlencode(OkxParams(inst_type, inst_id, pos_id))
        request_path == IF query # "" THEN path \o "?" \o query ELSE path
        timestamp == _okx_timestamp(now)
        sign == _okx_sign(timestamp, "GET", request_path, "", api_secret)
        headers == [OK_ACCESS_KEY |-> api_key,
                    OK_ACCESS_SIGN |-> sign,
                    OK_ACCESS_TIMESTAMP |-> timestamp,
                    OK_ACCESS_PASSPHRASE |-> passphrase]
        request == [url |-> OKX_BASE_URL \o request_path, params |-> <<>>,
                    headers |-> headers]
    IN  OkxResult(<<request>>, resp)

\* resp: the dict okx_get_positions returned; a position is a dict
_pick_okx_position(resp, inst_id) ==
    LET data == GetOr(resp.dict, "data", PList(<<>>))
    IN  IF ~IsList(data) \/ data.list = <<>> THEN None
        ELSE IF ~Truthy(inst_id) THEN data.list[1]
        ELSE IF FirstMatch(data.list, "instId", inst_id) # None
             THEN FirstMatch(data.list, "instId", inst_id)
        ELSE data.list[1]

-----------------------------------------------------------------------------
(* Inputs: what a caller may pass and what an exchange may answer *)

MaxParams == 3       \* longest parameter map passed to _binance_signed_get
MaxPositions == 2    \* longest position list in a response
Clock0 == 9          \* the clock when the script starts

Times == {Clock0, Clock0 + 1}
HttpStatuses == {200, 201, 302, 404, 500}
Responses(bodies) == {NoResponse} \cup {Response(s, b) : s \in HttpStatuses, b \in bodies}
\* the answers the main script is run against
RunStatuses == {200, 302, 404}
RunResponses(bodies) == {NoResponse} \cup {Response(s, b) : s \in RunStatuses, b \in bodies}

NIGHTUSDT == PStr(<<"NIGHTUSDT">>)
USDT == PStr(<<"USDT">>)
OKX_INST_TYPE == PStr(<<"SWAP">>)
OKX_INST_ID == PStr(<<"NIGHT-USDT-SWAP">>)
KEY == PStr(<<"key">>)
SECRET == PStr(<<"secret">>)
EmptyStr == PStr(<<>>)

\* all sequences of length <= n over S
RECURSIVE SeqsUpTo(_, _)
SeqsUpTo(S, n) ==
    IF n = 0 THEN {<<>>}
    ELSE LET shorter == SeqsUpTo(S, n - 1)
         IN  shorter \cup {Append(q, x) : q \in shorter, x \in S}

\* parameter maps: distinct keys in any order
ParamValues(k) ==
    CASE k = <<"recvWindow">> -> {PInt(DefaultRecvWindow)}
      [] k = <<"timestamp">> -> {PInt(7)}
      [] k = <<"signature">> -> {PStr(<<"stale">>)}
      [] k = <<"symbol">> -> {NIGHTUSDT, PStr(<<"A", "&", "B">>), None}
ParamKeys == {<<"recvWindow">>, <<"timestamp">>, <<"signature">>, <<"symbol">>}
ParamMaps ==
    {m \in SeqsUpTo({<<k, v>> : k \in ParamKeys, v \in UNION {ParamValues(x) : x \in ParamKeys}},
                    MaxParams) :
        /\ \A i \in 1..Len(m) : m[i][2] \in ParamValues(m[i][1])
        /\ \A i, j \in 1..Len(m) : i # j => m[i][1] # m[j][1]}

\* response bodies
Field(k, v) == <<k, v>>
BybitPositions ==
    {PDict(<<Field("symbol", NIGHTUSDT), Field("cumRealisedPnl", PStr(<<"1.5">>)),
             Field("size", PStr(<<"3">>))>>),
     PDict(<<Field("symbol", NIGHTUSDT), Field("cumRealisedPnl", None)>>),
     PDict(<<Field("symbol", PStr(<<"BTCUSDT">>)), Field("cumRealisedPnl", PStr(<<"9">>)),
             Field("size", PStr(<<"8">>))>>)}
BybitBodies ==
    {NotJson, PDict(<<Field("retCode", PInt(10001)), Field("result", PDict(<<>>))>>)}
    \cup {PDict(<<Field("retCode", PInt(0)),
                  Field("result", PDict(<<Field("list", PList(l))>>))>>) :
            l \in SeqsUpTo(BybitPositions, MaxPositions)}

IncomeRows ==
    {PDict(<<Field("income", PStr(<<"1">>))>>), PDict(<<Field("income", PStr(<<"x">>))>>),
     PDict(<<Field("symbol", NIGHTUSDT)>>)}
IncomeBodies ==
    {NotJson, PDict(<<Field("code", PInt(0 - 1121))>>)}
    \cup {PList(l) : l \in SeqsUpTo(IncomeRows, MaxPositions)}

BinancePositions ==
    {PDict(<<Field("symbol", NIGHTUSDT), Field("positionAmt", PStr(<<"7">>))>>),
     PDict(<<Field("symbol", PStr(<<"BTCUSDT">>)), Field("positionAmt", PStr(<<"5">>))>>)}
AccountBodies ==
    {NotJson, PList(<<>>), PDict(<<Field("code", PInt(0 - 2015))>>)}
    \cup {PDict(<<Field("positions", PList(l))>>) :
            l \in SeqsUpTo(BinancePositions, MaxPositions)}

OkxPositions ==
    {PDict(<<Field("instId", OKX_INST_ID), Field("deltaPA", PStr(<<"0.5">>)),
             Field("realizedPnl", PStr(<<"2">>)), Field("pos", PStr(<<"4">>))>>),
     PDict(<<Field("instId", OKX_INST_ID), Field("pos", None)>>),
     PDict(<<Field("instId", PStr(<<"BTC-USDT-SWAP">>)), Field("deltaPA", PStr(<<"6">>)),
             Field("realizedPnl", PStr(<<"6">>)), Field("pos", PStr(<<"6">>))>>)}
OkxCodes == {None, PStr(<<"0">>), PStr(<<"1">>), PInt(0)}
OkxBodies ==
    {NotJson, PList(<<>>), PDict(<<Field("data", PList(<<>>))>>)}
    \cup {PDict(<<Field("code", c), Field("msg", PStr(<<"error">>))>>) : c \in OkxCodes}
    \cup {PDict(<<Field("code", PStr(<<"0">>)), Field("data", PList(l))>>) :
            l \in SeqsUpTo(OkxPositions, MaxPositions)}

-----------------------------------------------------------------------------
(* One call of a single function, with any arguments at any time *)

NoCall == [fn |-> "none"]

CallBybitGetPositions ==
    /\ pc = "call" /\ call = NoCall
    /\ \E symbol \in {None, EmptyStr, NIGHTUSDT, PStr(<<"A", "&", "B">>)},
          base_coin \in {None, PStr(<<"NIGHT">>)},
          settle_coin \in {None, USDT},
          limit \in {None, PInt(1), PInt(50)},
          cursor \in {None, PStr(<<"p", "=", "2">>)},
          now \in Times,
          resp \in Responses({NotJson, PDict(<<>>)}) :
        LET got == bybit_get_positions(KEY, SECRET, symbol, base_coin, settle_coin,
                                       limit, cursor, now, resp)
        IN  /\ call' = [fn |-> "bybit_get_positions", api_key |-> KEY,
                        api_secret |-> SECRET, symbol |-> symbol, base_coin |-> base_coin,
                        settle_coin |-> settle_coin, limit |-> limit, cursor |-> cursor]
            /\ clock' = now
            /\ requests' = got.sent
            /\ responses' = [i \in 1..Len(got.sent) |-> Outline(resp)]
            /\ raised' = got.raised
            /\ ret' = got.value
            /\ UNCHANGED runVars

CallBinanceSignedGet ==
    /\ pc = "call" /\ call = NoCall
    /\ \E params \in ParamMaps, now \in Times,
          resp \in Responses({NotJson, PList(<<>>), PDict(<<>>)}) :
        LET got == _binance_signed_get("/fapi/v3/account", KEY, SECRET, params, now, resp)
        IN  /\ call' = [fn |-> "_binance_signed_get", api_secret |-> SECRET,
                        params |-> params, params_after |-> got.caller_params]
            /\ clock' = now
            /\ requests' = got.sent
            /\ responses' = [i \in 1..Len(got.sent) |-> Outline(resp)]
            /\ raised' = got.raised
            /\ ret' = got.value
            /\ UNCHANGED runVars

Limits == {0 - 1, 0, LimitMin, LimitMin + 1, LimitMax - 1, LimitMax, LimitMax + 1}

CallBinanceGetFuturesIncome ==
    /\ pc = "call" /\ call = NoCall
    /\ \E symbol \in {None, EmptyStr, NIGHTUSDT},
          income_type \in {None, PStr(<<"FUNDING_FEE">>)},
          start_time_ms \in {None, PInt(5)},
          page \in {None, PInt(1)},
          limit \in Limits,
          now \in Times,
          resp \in Responses({NotJson, PList(<<>>), PDict(<<>>)}) :
        LET got == binance_get_futures_income(KEY, SECRET, symbol, income_type,
                        start_time_ms, None, page, limit, DefaultRecvWindow, now, resp)
        IN  /\ call' = [fn |-> "binance_get_futures_income", limit |-> limit]
            /\ clock' = now
            /\ requests' = got.sent
            /\ responses' = [i \in 1..Len(got.sent) |-> Outline(resp)]
            /\ raised' = got.raised
            /\ ret' = got.value
            /\ UNCHANGED runVars

CallOkxGetPositions ==
    /\ pc = "call" /\ call = NoCall
    /\ \E inst_type \in {None, OKX_INST_TYPE},
          inst_id \in {None, EmptyStr, OKX_INST_ID},
          pos_id \in {None, PStr(<<"7">>)},
          now \in Times,
          resp \in Responses(OkxBodies) :
        LET got == okx_get_positions(KEY, SECRET, PStr(<<"pass">>), inst_type, inst_id,
                                     pos_id, now, resp)
        IN  /\ call' = [fn |-> "okx_get_positions", inst_id |-> inst_id]
            /\ clock' = now
            /\ requests' = got.sent
            /\ responses' = [i \in 1..Len(got.sent) |-> Outline(resp)]
            /\ raised' = got.raised
            /\ ret' = got.value
            /\ UNCHANGED runVars

CallInit ==
    /\ pc = "call"
    /\ env = <<>>
    /\ clock = Clock0
    /\ requests = <<>>
    /\ responses = <<>>
    /\ raised = None
    /\ sheet = <<>>
    /\ bybit_list = None /\ bybit_pos = None
    /\ bybit_cum_realised_pnl = None /\ bybit_size = None
    /\ total_income = None
    /\ positions = None /\ binance_size = None
    /\ okx_resp = None /\ okx_pos = None
    /\ okx_deltaPA = None /\ okx_realizedPnl = None /\ okx_size = None
    /\ df = None
    /\ call = NoCall
    /\ ret = None

CallNext ==
    \/ CallBybitGetPositions
    \/ CallBinanceSignedGet
    \/ CallBinanceGetFuturesIncome
    \/ CallOkxGetPositions

CallSpec == CallInit /\ [][CallNext]_vars

-----------------------------------------------------------------------------
(* Configuration from the environment *)

RECURSIVE lstrip(_)
lstrip(tokens) ==
    IF tokens # <<>> /\ Head(tokens) = " " THEN lstrip(Tail(tokens)) ELSE tokens
RECURSIVE rstrip(_)
rstrip(tokens) ==
    IF tokens # <<>> /\ tokens[Len(tokens)] = " "
    THEN rstrip(SubSeq(tokens, 1, Len(tokens) - 1)) ELSE tokens
\* str.strip()
strip(tokens) == rstrip(lstrip(tokens))

\* require_env raises for this value of the variable
EnvMissing(val) == val = None \/ strip(val.str) = <<>>

RequiredEnv ==
    <<"SHEET_URL", "BYBIT_API_KEY", "BYBIT_API_SECRET", "BINANCE_API_KEY",
      "BINANCE_API_SECRET", "OKX_API_KEY", "OKX_API_SECRET", "OKX_PASSPHRASE">>
GoogleEnv == {"GOOGLE_SERVICE_ACCOUNT_FILE", "GOOGLE_SERVICE_ACCOUNT_JSON"}

\* json.loads accepts the text
JsonLoads(tokens) == strip(tokens) \in {<<"{", "}">>, <<"[", "]">>, <<"0">>}

get_service_account_file_path(e) ==
    LET google_service_account_file == e["GOOGLE_SERVICE_ACCOUNT_FILE"]
        google_service_account_json == e["GOOGLE_SERVICE_ACCOUNT_JSON"]
    IN  IF Truthy(google_service_account_file)
           /\ strip(google_service_account_file.str) # <<>>
        THEN Returned(<<>>, PStr(strip(google_service_account_file.str)))
        ELSE IF Truthy(google_service_account_json)
                /\ strip(google_service_account_json.str) # <<>>
        THEN IF ~JsonLoads(google_service_account_json.str)
             THEN Raised(<<>>, "RuntimeError: GOOGLE_SERVICE_ACCOUNT_JSON is not valid JSON")
             \* the JSON is written to a temporary file, whose path is returned
             ELSE Returned(<<>>, PStr(<<"gcp-sa-", "tmp", ".json">>))
        ELSE Raised(<<>>, "RuntimeError: Set either GOOGLE_SERVICE_ACCOUNT_FILE or GOOGLE_SERVICE_ACCOUNT_JSON")

ConfigErrors ==
    {PStr(<<"RuntimeError: Missing required env var">>),
     PStr(<<"RuntimeError: GOOGLE_SERVICE_ACCOUNT_JSON is not valid JSON">>),
     PStr(<<"RuntimeError: Set either GOOGLE_SERVICE_ACCOUNT_FILE or GOOGLE_SERVICE_ACCOUNT_JSON">>)}

-----------------------------------------------------------------------------
(* The main script *)

Fail(error) == pc' = "failed" /\ raised' = error

\* float(v) of a str of one digit; anything else raises ValueError
CanFloat(v) == IsStr(v) /\ \E n \in 0..9 : v.str = <<Digit(n)>>
float(v) == CHOOSE n \in 0..9 : v.str = <<Digit(n)>>

RECURSIVE Sum(_)
Sum(ns) == IF ns = <<>> THEN 0 ELSE Head(ns) + Sum(Tail(ns))

\* SHEET_URL = require_env("SHEET_URL"), when the module is loaded
ImportModule ==
    /\ pc = "import"
    /\ IF EnvMissing(env["SHEET_URL"])
       THEN Fail(PStr(<<"RuntimeError: Missing required env var">>))
       ELSE pc' = "main" /\ UNCHANGED raised
    /\ UNCHANGED <<env, sheet, bybit_list, bybit_pos, bybit_cum_realised_pnl, bybit_size,
                   total_income, positions, binance_size, okx_resp, okx_pos, okx_deltaPA,
                   okx_realizedPnl, okx_size, df, callVars, clock, requests, responses>>

\* the seven require_env calls that open __main__
ReadExchangeEnv ==
    /\ pc = "main"
    /\ IF \E i \in 2..Len(RequiredEnv) : EnvMissing(env[RequiredEnv[i]])
       THEN Fail(PStr(<<"RuntimeError: Missing required env var">>))
       ELSE pc' = "bybit" /\ UNCHANGED raised
    /\ UNCHANGED <<env, sheet, bybit_list, bybit_pos, bybit_cum_realised_pnl, bybit_size,
                   total_income, positions, binance_size, okx_resp, okx_pos, okx_deltaPA,
                   okx_realizedPnl, okx_size, df, callVars, clock, requests, responses>>

\* lines 350-358: the position of NIGHTUSDT in a Bybit response
BybitList(bybit_resp) ==
    GetOr(GetOr(bybit_resp.dict, "result", PDict(<<>>)).dict, "list", PList(<<>>)).list
BybitPos(list) == FirstMatch(list, "symbol", NIGHTUSDT)
BybitCumRealisedPnl(pos) == IF Truthy(pos) THEN Get(pos.dict, "cumRealisedPnl") ELSE None
BybitSize(pos) == IF Truthy(pos) THEN Get(pos.dict, "size") ELSE None

FetchBybit ==
    /\ pc = "bybit"
    /\ \E resp \in RunResponses(BybitBodies) :
        LET got == bybit_get_positions(env["BYBIT_API_KEY"], env["BYBIT_API_SECRET"],
                        NIGHTUSDT, None, USDT, None, None, clock, resp)
        IN  /\ requests' = requests \o got.sent
            /\ responses' = responses \o [i \in 1..Len(got.sent) |-> Outline(resp)]
            /\ clock' = clock + 1
            /\ IF got.raised # None
               THEN /\ Fail(got.raised)
                    /\ UNCHANGED <<bybit_list, bybit_pos, bybit_cum_realised_pnl, bybit_size>>
               ELSE /\ pc' = "income" /\ UNCHANGED raised
                    /\ bybit_list' = PList(BybitList(got.value))
                    /\ bybit_pos' = BybitPos(bybit_list'.list)
                    /\ bybit_cum_realised_pnl' = BybitCumRealisedPnl(bybit_pos')
                    /\ bybit_size' = BybitSize(bybit_pos')
    /\ UNCHANGED <<env, sheet, total_income, positions, binance_size, okx_resp, okx_pos,
                   okx_deltaPA, okx_realizedPnl, okx_size, df, callVars>>

\* the setting of datetime(2025, 12, 15), in the model's clock
BINANCE_INCOME_START_MS == PInt(1)

\* sum(float(row["income"]) for row in income if "income" in row)
IncomeValues(income) ==
    LET rows == SelectSeq(income, LAMBDA row : HasKey(row.dict, "income"))
    IN  [i \in 1..Len(rows) |-> Get(rows[i].dict, "income")]
TotalIncome(income) ==
    Sum([i \in 1..Len(IncomeValues(income)) |-> float(IncomeValues(income)[i])])

FetchBinanceIncome ==
    /\ pc = "income"
    /\ \E resp \in RunResponses(IncomeBodies) :
        LET got == binance_get_futures_income(env["BINANCE_API_KEY"],
                        env["BINANCE_API_SECRET"], None, PStr(<<"FUNDING_FEE">>),
                        BINANCE_INCOME_START_MS, None, None, LimitMax, DefaultRecvWindow,
                        clock, resp)
        IN  /\ requests' = requests \o got.sent
            /\ responses' = responses \o [i \in 1..Len(got.sent) |-> Outline(resp)]
            /\ clock' = clock + 1
            /\ IF got.raised # None
               THEN Fail(got.raised) /\ UNCHANGED total_income
               ELSE IF \E i \in 1..Len(IncomeValues(got.value.list)) :
                          ~CanFloat(IncomeValues(got.value.list)[i])
               THEN Fail(PStr(<<"ValueError: could not convert string to float">>))
                    /\ UNCHANGED total_income
               ELSE /\ pc' = "account" /\ UNCHANGED raised
                    /\ total_income' = PInt(TotalIncome(got.value.list))
    /\ UNCHANGED <<env, sheet, bybit_list, bybit_pos, bybit_cum_realised_pnl, bybit_size,
                   positions, binance_size, okx_resp, okx_pos, okx_deltaPA,
                   okx_realizedPnl, okx_size, df, callVars>>

\* lines 380-386: the amount the script reports for Binance
AccountPositions(account) == GetOr(account.dict, "positions", PList(<<>>)).list
\* p.get("positionAmt", "0") or "0"
PositionAmtOrZero(p) ==
    IF Truthy(GetOr(p.dict, "positionAmt", PStr(<<"0">>)))
    THEN GetOr(p.dict, "positionAmt", PStr(<<"0">>)) ELSE PStr(<<"0">>)
BinanceSize(list) == IF list # <<>> THEN Get(list[1].dict, "positionAmt") ELSE None

FetchBinanceAccount ==
    /\ pc = "account"
    /\ \E resp \in RunResponses(AccountBodies) :
        LET got == binance_get_futures_account(env["BINANCE_API_KEY"],
                        env["BINANCE_API_SECRET"], DefaultRecvWindow, clock, resp)
        IN  /\ requests' = requests \o got.sent
            /\ responses' = responses \o [i \in 1..Len(got.sent) |-> Outline(resp)]
            /\ clock' = clock + 1
            /\ IF got.raised # None
               THEN Fail(got.raised) /\ UNCHANGED <<positions, binance_size>>
               ELSE IF \E i \in 1..Len(AccountPositions(got.value)) :
                          ~CanFloat(PositionAmtOrZero(AccountPositions(got.value)[i]))
               THEN Fail(PStr(<<"ValueError: could not convert string to float">>))
                    /\ UNCHANGED <<positions, binance_size>>
               ELSE /\ pc' = "okx" /\ UNCHANGED raised
                    /\ positions' = PList(AccountPositions(got.value))
                    /\ binance_size' = BinanceSize(positions'.list)
    /\ UNCHANGED <<env, sheet, bybit_list, bybit_pos, bybit_cum_realised_pnl, bybit_size,
                   total_income, okx_resp, okx_pos, okx_deltaPA, okx_realizedPnl,
                   okx_size, df, callVars>>

\* lines 397-404
OkxField(pos, key) == IF Truthy(pos) THEN Get(pos.dict, key) ELSE None

FetchOkx ==
    /\ pc = "okx"
    /\ \E resp \in RunResponses(OkxBodies) :
        LET got == okx_get_positions(env["OKX_API_KEY"], env["OKX_API_SECRET"],
                        env["OKX_PASSPHRASE"], OKX_INST_TYPE, OKX_INST_ID, None,
                        clock, resp)
        IN  /\ requests' = requests \o got.sent
            /\ responses' = responses \o [i \in 1..Len(got.sent) |-> Outline(resp)]
            /\ clock' = clock + 1
            /\ IF got.raised # None
               THEN /\ Fail(got.raised)
                    /\ UNCHANGED <<okx_resp, okx_pos, okx_deltaPA, okx_realizedPnl, okx_size>>
               ELSE IF ~IsDict(got.value)
               THEN /\ Fail(PStr(<<"AttributeError: 'list' object has no attribute 'get'">>))
                    /\ okx_resp' = got.value
                    /\ UNCHANGED <<okx_pos, okx_deltaPA, okx_realizedPnl, okx_size>>
               ELSE /\ pc' = "build" /\ UNCHANGED raised
                    /\ okx_resp' = got.value
                    /\ okx_pos' = _pick_okx_position(okx_resp', OKX_INST_ID)
                    /\ okx_deltaPA' = OkxField(okx_pos', "deltaPA")
                    /\ okx_realizedPnl' = OkxField(okx_pos', "realizedPnl")
                    /\ okx_size' = OkxField(okx_pos', "pos")
    /\ UNCHANGED <<env, sheet, bybit_list, bybit_pos, bybit_cum_realised_pnl, bybit_size,
                   total_income, positions, binance_size, df, callVars>>

Row(now_ms, exchange, symbol, metric, value) ==
    [timestamp_ms |-> now_ms, last_updated |-> None, exchange |-> exchange,
     symbol |-> symbol, metric |-> metric, value |-> value]

BybitRows(now_ms, cum_realised_pnl, size) ==
    <<Row(now_ms, "bybit", NIGHTUSDT, "cumRealisedPnl", cum_realised_pnl),
      Row(now_ms, "bybit", NIGHTUSDT, "size", size)>>
BinanceRows(now_ms, income, size) ==
    <<Row(now_ms, "binance", EmptyStr, "total_income_funding_fees", income),
      Row(now_ms, "binance", EmptyStr, "positions_0_positionAmt", size)>>
OkxRows(now_ms, deltaPA, realizedPnl, size) ==
    <<Row(now_ms, "okx", OKX_INST_ID, "deltaPA", deltaPA),
      Row(now_ms, "okx", OKX_INST_ID, "realizedPnl", realizedPnl),
      Row(now_ms, "okx", OKX_INST_ID, "pos", size)>>

\* strftime("%Y-%m-%d %H:%M:%S UTC") of the instant `now` ms after the epoch
RunTs(now) == "1970-01-01 00:00:0" \o Decimal(now \div 1000) \o " UTC"
MetaRow(now_ms, run_ts) ==
    [timestamp_ms |-> now_ms, last_updated |-> PStr(<<run_ts>>), exchange |-> EmptyStr,
     symbol |-> EmptyStr, metric |-> "script_run_time", value |-> EmptyStr]

\* lines 407-476
BuildDataFrame ==
    /\ pc = "build"
    /\ df' = BybitRows(clock, bybit_cum_realised_pnl, bybit_size)
             \o BinanceRows(clock, total_income, binance_size)
             \o OkxRows(clock, okx_deltaPA, okx_realizedPnl, okx_size)
             \o <<MetaRow(clock, RunTs(clock + 1))>>
    /\ clock' = clock + 2
    /\ pc' = "credentials"
    /\ UNCHANGED <<env, sheet, bybit_list, bybit_pos, bybit_cum_realised_pnl, bybit_size,
                   total_income, positions, binance_size, okx_resp, okx_pos, okx_deltaPA,
                   okx_realizedPnl, okx_size, callVars, requests, responses, raised>>

\* lines 479-483: the service account, its credentials, the spreadsheet
OpenSpreadsheet ==
    /\ pc = "credentials"
    /\ LET sa_path == get_service_account_file_path(env)
       IN  IF sa_path.raised # None THEN Fail(sa_path.raised)
           ELSE \/ Fail(PStr(<<"google: the credentials or the spreadsheet could not be opened">>))
                \/ pc' = "worksheet" /\ UNCHANGED raised
    /\ UNCHANGED <<env, sheet, bybit_list, bybit_pos, bybit_cum_realised_pnl, bybit_size,
                   total_income, positions, binance_size, okx_resp, okx_pos, okx_deltaPA,
                   okx_realizedPnl, okx_size, df, callVars, clock, requests, responses>>

\* lines 485-492: the tab, added when it is not there
OpenWorksheet ==
    /\ pc = "worksheet"
    /\ \/ Fail(PStr(<<"gspread: APIError">>)) /\ UNCHANGED sheet
       \/ pc' = "clear" /\ UNCHANGED <<raised, sheet>>
       \/ pc' = "clear" /\ sheet' = Append(sheet, [op |-> "add_worksheet"])
                        /\ UNCHANGED raised
    /\ UNCHANGED <<env, bybit_list, bybit_pos, bybit_cum_realised_pnl, bybit_size,
                   total_income, positions, binance_size, okx_resp, okx_pos, okx_deltaPA,
                   okx_realizedPnl, okx_size, df, callVars, clock, requests, responses>>

\* ws.clear()
ClearWorksheet ==
    /\ pc = "clear"
    /\ \/ Fail(PStr(<<"gspread: APIError">>)) /\ UNCHANGED sheet
       \/ pc' = "write" /\ sheet' = Append(sheet, [op |-> "clear"]) /\ UNCHANGED raised
    /\ UNCHANGED <<env, bybit_list, bybit_pos, bybit_cum_realised_pnl, bybit_size,
                   total_income, positions, binance_size, okx_resp, okx_pos, okx_deltaPA,
                   okx_realizedPnl, okx_size, df, callVars, clock, requests, responses>>

\* set_with_dataframe(ws, df, ...)
WriteWorksheet ==
    /\ pc = "write"
    /\ \/ Fail(PStr(<<"gspread: APIError">>)) /\ UNCHANGED sheet
       \/ pc' = "done" /\ sheet' = Append(sheet, [op |-> "write", rows |-> df])
                       /\ UNCHANGED raised
    /\ UNCHANGED <<env, bybit_list, bybit_pos, bybit_cum_realised_pnl, bybit_size,
                   total_income, positions, binance_size, okx_resp, okx_pos, okx_deltaPA,
                   okx_realizedPnl, okx_size, df, callVars, clock, requests, responses>>

EnvValues == {None, PStr(<<" ">>), KEY}

Init ==
    /\ pc = "import"
    /\ \E required \in [{RequiredEnv[i] : i \in 1..Len(RequiredEnv)} -> EnvValues],
          google \in {<<PStr(<<"sa.json">>), None>>, <<None, PStr(<<"{", "}">>)>>,
                      <<PStr(<<" ">>), PStr(<<"{">>)>>, <<None, None>>} :
            env = required @@ [n \in GoogleEnv |->
                                  IF n = "GOOGLE_SERVICE_ACCOUNT_FILE" THEN google[1]
                                  ELSE google[2]]
    /\ clock = Clock0
    /\ requests = <<>>
    /\ responses = <<>>
    /\ raised = None
    /\ sheet = <<>>
    /\ bybit_list = None /\ bybit_pos = None
    /\ bybit_cum_realised_pnl = None /\ bybit_size = None
    /\ total_income = None
    /\ positions = None /\ binance_size = None
    /\ okx_resp = None /\ okx_pos = None
    /\ okx_deltaPA = None /\ okx_realizedPnl = None /\ okx_size = None
    /\ df = None
    /\ call = NoCall
    /\ ret = None

Next ==
    \/ ImportModule
    \/ ReadExchangeEnv
    \/ FetchBybit
    \/ FetchBinanceIncome
    \/ FetchBinanceAccount
    \/ FetchOkx
    \/ BuildDataFrame
    \/ OpenSpreadsheet
    \/ OpenWorksheet
    \/ ClearWorksheet
    \/ WriteWorksheet

Spec == Init /\ [][Next]_vars

-----------------------------------------------------------------------------
(* Properties of the single calls, checked under CallSpec *)

\* all orderings of a parameter map
Orderings(params) ==
    {[i \in 1..Len(params) |-> params[f[i]]] : f \in Permutations(1..Len(params))}

\* C3: binance_get_futures_income rejects every limit outside [1,1000] with a local
\* validation error before any request is issued, and for every limit in [1,1000],
\* 1 and 1000 included, it issues a request that carries that limit.
C3_LimitCheckedBeforeRequest ==
    call.fn = "binance_get_futures_income" =>
        /\ (call.limit < 1 \/ call.limit > 1000) =>
              /\ requests = <<>>
              /\ raised = PStr(<<"ValueError: limit must be between 1 and 1000">>)
        /\ (1 <= call.limit /\ call.limit <= 1000) =>
              /\ Len(requests) = 1
              /\ Get(requests[1].params, <<"limit">>) = PInt(call.limit)

C3_Witness ==
    /\ call.fn = "binance_get_futures_income"
    /\ call.limit = 1000
    /\ Len(requests) = 1
    /\ raised = None

\* C8: bybit_get_positions signs timestamp ++ apiKey ++ recvWindow ++ urlencode(params),
\* params being category=linear followed by exactly the filters that were supplied, in
\* the order symbol, baseCoin, settleCoin, limit, cursor; the map that is signed is the
\* map that is sent, the headers carry the signed timestamp and receive window, and any
\* other ordering of the same parameters gives another signed string.
C8_BybitSignedString ==
    call.fn = "bybit_get_positions" =>
        LET r == requests[1]
            limitText == IF call.limit = None THEN None
                         ELSE IF call.limit = PInt(1) THEN PStr(<<"1">>) ELSE PStr(<<"50">>)
            filters == <<<<(<<"symbol">>), call.symbol>>, <<(<<"baseCoin">>), call.base_coin>>,
                         <<(<<"settleCoin">>), call.settle_coin>>, <<(<<"limit">>), limitText>>,
                         <<(<<"cursor">>), call.cursor>>>>
            supplied == SelectSeq(filters, LAMBDA kv : kv[2] # None)
            prefix == r.headers.X_BAPI_TIMESTAMP \o "key" \o r.headers.X_BAPI_RECV_WINDOW
        IN  /\ r.params = <<<<(<<"category">>), PStr(<<"linear">>)>>>> \o supplied
            /\ r.headers.X_BAPI_SIGN
                 = [hmac_sha256_hex |-> prefix \o urlencode(r.params), key |-> SECRET]
            /\ r.headers.X_BAPI_TIMESTAMP = Decimal(clock)
            /\ r.headers.X_BAPI_RECV_WINDOW = "5000"
            /\ \A q \in Orderings(r.params) :
                   q # r.params =>
                       prefix \o urlencode(q) # r.headers.X_BAPI_SIGN.hmac_sha256_hex

C8_Witness ==
    /\ call.fn = "bybit_get_positions"
    /\ call.symbol = EmptyStr
    /\ call.base_coin = None
    /\ call.limit = PInt(50)
    /\ call.cursor # None
    /\ Len(requests) = 1
    /\ Len(requests[1].params) = 4

\* what C7 says of one call of _binance_signed_get
SignatureLastOverTheRest ==
    LET sent == requests[1].params
        n == Len(sent)
    IN  /\ sent[n][1] = <<"signature">>
        /\ \A i \in 1..(n - 1) : sent[i][1] # <<"signature">>
        /\ sent[n][2] = [hmac_sha256_hex |-> urlencode(SubSeq(sent, 1, n - 1)),
                         key |-> call.api_secret]
        /\ Get(sent, <<"timestamp">>)
             = IF HasKey(call.params, <<"timestamp">>)
               THEN Get(call.params, <<"timestamp">>) ELSE PInt(clock)
        /\ call.params_after = call.params

C4_OkxCodeRaised ==
    (call.fn = "okx_get_positions" /\ responses[1] # NoResponse /\ responses[1].json) =>
        /\ (/\ responses[1].status_code = 200
            /\ responses[1].has_code
            /\ responses[1].code # PStr(<<"0">>))
               => raised = PStr(<<"RuntimeError: OKX API error">>) /\ ret = None
        /\ responses[1].status_code # 200
               => raised = PStr(<<"RuntimeError: OKX HTTP error">>) /\ ret = None

-----------------------------------------------------------------------------
(* Properties of the main script, checked under Spec *)

Is2xx(status) == 200 <= status /\ status <= 299

\* the exchange answered, with a 2xx status, a body that parses and no error code
Succeeded(outline) ==
    /\ outline # NoResponse
    /\ Is2xx(outline.status_code)
    /\ outline.json
    /\ outline.has_code => (outline.code = PInt(0) \/ outline.code = PStr(<<"0">>))

ExchangeUrls ==
    <<"https://api.bybit.com/v5/position/list",
      "https://fapi.binance.com/fapi/v1/income",
      "https://fapi.binance.com/fapi/v3/account",
      "https://www.okx.com/api/v5/account/positions?instType=SWAP&instId=NIGHT-USDT-SWAP">>

SheetTouched == \E i \in 1..Len(sheet) : sheet[i].op \in {"clear", "write"}

\* C1: the four requests are issued in the order Bybit positions, Binance income,
\* Binance account, OKX positions, each once; a request is issued only when every
\* earlier one has succeeded, and the sheet is cleared or written only when all
\* four have succeeded.
C1_SinkOnlyAfterFourSuccesses ==
    /\ Len(requests) <= 4
    /\ \A i \in 1..Len(requests) : requests[i].url = ExchangeUrls[i]
    /\ \A i \in 1..(Len(requests) - 1) : Succeeded(responses[i])
    /\ SheetTouched =>
          Len(requests) = 4 /\ \A i \in 1..4 : Succeeded(responses[i])

\* a credential the run requires is missing, empty or blank, or no service account
\* is given, or the one given as JSON does not parse
Blank(val) == val = None \/ \A i \in 1..Len(val.str) : val.str[i] = " "
ConfigBad ==
    \/ \E i \in 1..Len(RequiredEnv) : Blank(env[RequiredEnv[i]])
    \/ /\ Blank(env["GOOGLE_SERVICE_ACCOUNT_FILE"])
       /\ \/ Blank(env["GOOGLE_SERVICE_ACCOUNT_JSON"])
          \/ env["GOOGLE_SERVICE_ACCOUNT_JSON"] # PStr(<<"{", "}">>)

\* C2: a run with a missing, empty or malformed credential issues no request to any
\* exchange, and when it has failed it has failed with a configuration error.
C2_ConfigErrorBeforeAnyRequest ==
    ConfigBad =>
        /\ requests = <<>>
        /\ pc = "failed" => raised \in ConfigErrors

\* the target is in none of the positions of a non-empty list
Absent(list, key, target) ==
    /\ list # <<>>
    /\ \A i \in 1..Len(list) : Get(list[i].dict, key) # target

\* C5: when the position list is not empty and no element of it has the target
\* symbol, the selected position is None: for the OKX list and for the Bybit list.
C5_AbsentSymbolGivesNone ==
    /\ (bybit_list # None /\ Absent(bybit_list.list, "symbol", NIGHTUSDT))
          => bybit_pos = None
    /\ (pc \in {"build", "credentials", "worksheet", "clear", "write", "done"}
        /\ IsList(GetOr(okx_resp.dict, "data", PList(<<>>)))
        /\ Absent(GetOr(okx_resp.dict, "data", PList(<<>>)).list, "instId", OKX_INST_ID))
          => okx_pos = None

\* C6: the rows of an exchange whose list has no position of the target symbol
\* differ from the rows of a position of that symbol whose fields are missing.
C6_NotFoundDistinctFromNull ==
    pc \in {"credentials", "worksheet", "clear", "write", "done"} =>
        LET empty_bybit == PDict(<<Field("symbol", NIGHTUSDT)>>)
            empty_okx == PDict(<<Field("instId", OKX_INST_ID)>>)
            data == GetOr(okx_resp.dict, "data", PList(<<>>))
        IN  /\ Absent(bybit_list.list, "symbol", NIGHTUSDT) =>
                  SubSeq(df, 1, 2) # BybitRows(df[1].timestamp_ms,
                                               BybitCumRealisedPnl(empty_bybit),
                                               BybitSize(empty_bybit))
            /\ (IsList(data) /\ Absent(data.list, "instId", OKX_INST_ID)) =>
                  SubSeq(df, 5, 7) # OkxRows(df[5].timestamp_ms,
                                             OkxField(empty_okx, "deltaPA"),
                                             OkxField(empty_okx, "realizedPnl"),
                                             OkxField(empty_okx, "pos"))

\* C9: the Binance amount in the rows is the positionAmt of the account position
\* found by its symbol, and None (not found) when no position has the symbol.
C9_BinanceAmountBySymbol ==
    positions # None =>
        binance_size
          = IF FirstMatch(positions.list, "symbol", NIGHTUSDT) = None THEN None
            ELSE Get(FirstMatch(positions.list, "symbol", NIGHTUSDT).dict, "positionAmt")

\* C10: a status outside 200-299 in answer to the Bybit request ends the run there:
\* an error is raised, no body is taken from the response, no other request follows.
C10_BybitNon2xxIsFatal ==
    (/\ responses # <<>>
     /\ responses[1] # NoResponse
     /\ ~Is2xx(responses[1].status_code))
        => /\ pc = "failed"
           /\ Len(requests) = 1
           /\ bybit_list = None

====
